---- MODULE Spec2Model ----
(***************************************************************************)
(* Online chess: the board component (ChessGame), the game page (GamePage) *)
(* and the hosted tables games / moves with their change feed.             *)
(*                                                                         *)
(* The rules engine (chess.js) is an external library.  It is modelled on  *)
(* a reduced board (BoardSize x BoardSize) with a white king, a white rook *)
(* and a black king: king and rook movement, no move that leaves the own   *)
(* king attacked, no capture of a king.  A position string (FEN) is the    *)
(* record [board, turn, half, full]; castling and en-passant fields are    *)
(* constant "-" on this board and left out.                                *)
(***************************************************************************)
EXTENDS Integers, Sequences, FiniteSets, TLC

\* ------------------------------------------------------------------ bounds
BoardSize == 3      \* files and ranks of the reduced board
MaxMoves  == 1      \* committed moves per run
MaxFeed   == 2      \* undelivered change notifications per client

NULL == "null"

\* ------------------------------------------------------------ rules engine
Files   == 1..BoardSize
Ranks   == 1..BoardSize
Squares == Files \X Ranks

NoPiece == [type |-> "none", color |-> "none"]
WK == [type |-> "k", color |-> "w"]
WR == [type |-> "r", color |-> "w"]
BK == [type |-> "k", color |-> "b"]

Other(c) == IF c = "w" THEN "b" ELSE "w"
Abs(x)   == IF x < 0 THEN -x ELSE x

\* the standard starting position of the reduced board
StartBoard ==
  [s \in Squares |->
     IF s = <<1, 1>> THEN WK
     ELSE IF s = <<2, 1>> THEN WR
     ELSE IF s = <<BoardSize, BoardSize>> THEN BK
     ELSE NoPiece]

StartFen == [board |-> StartBoard, turn |-> "w", half |-> 0, full |-> 1]

\* king step: vertically, horizontally or diagonally adjacent
Adjacent(a, b) == a # b /\ Abs(a[1] - b[1]) <= 1 /\ Abs(a[2] - b[2]) <= 1

Between(a, b) ==
  IF a[1] = b[1]
  THEN {s \in Squares : s[1] = a[1] /\ ((a[2] < s[2] /\ s[2] < b[2]) \/ (b[2] < s[2] /\ s[2] < a[2]))}
  ELSE {s \in Squares : s[2] = a[2] /\ ((a[1] < s[1] /\ s[1] < b[1]) \/ (b[1] < s[1] /\ s[1] < a[1]))}

\* the piece on a reaches b by its movement pattern
Reaches(board, a, b) ==
  CASE board[a].type = "k" -> Adjacent(a, b)
    [] board[a].type = "r" -> /\ a # b
                              /\ (a[1] = b[1] \/ a[2] = b[2])
                              /\ \A s \in Between(a, b) : board[s] = NoPiece
    [] OTHER -> FALSE

Attacked(board, sq, by) ==
  \E s \in Squares : board[s].color = by /\ Reaches(board, s, sq)

InCheck(board, c) ==
  \E s \in Squares : board[s] = [type |-> "k", color |-> c] /\ Attacked(board, s, Other(c))

HasKing(board, c) == \E s \in Squares : board[s] = [type |-> "k", color |-> c]

MovePiece(board, from, to) ==
  [board EXCEPT ![to] = board[from], ![from] = NoPiece]

\* Chess.move legality: own piece, movement pattern, no own piece and no king
\* on the target, own king not attacked afterwards
Legal(f, from, to) ==
  /\ from \in Squares /\ to \in Squares
  /\ f.board[from].color = f.turn
  /\ Reaches(f.board, from, to)
  /\ f.board[to].color # f.turn
  /\ f.board[to].type # "k"
  /\ ~InCheck(MovePiece(f.board, from, to), f.turn)

\* the position after a legal move: halfmove clock reset by a capture, fullmove
\* number incremented after black's move
ApplyMove(f, from, to) ==
  [board |-> MovePiece(f.board, from, to),
   turn  |-> Other(f.turn),
   half  |-> IF f.board[to] # NoPiece THEN 0 ELSE f.half + 1,
   full  |-> IF f.turn = "b" THEN f.full + 1 ELSE f.full]

\* Chess.moves({square}): legal destinations of the piece on sq
Moves(f, sq) == {t \in Squares : Legal(f, sq, t)}

HasLegalMove(f) == \E a \in Squares, b \in Squares : Legal(f, a, b)

\* Chess.isCheckmate
IsCheckmate(f) == InCheck(f.board, f.turn) /\ ~HasLegalMove(f)

\* SAN of a legal move: piece letter, capture mark, target, check suffix
San(f, from, to) ==
  LET g == ApplyMove(f, from, to)
  IN [piece |-> f.board[from].type,
      x     |-> f.board[to] # NoPiece,
      to    |-> to,
      suf   |-> IF IsCheckmate(g) THEN "#"
                ELSE IF InCheck(g.board, g.turn) THEN "+" ELSE ""]

\* text values: a position string and a square name are both strings in the
\* code; they are told apart here by their field
FenText(f) == [fen |-> f]
SqText(s)  == [sq |-> s]

NoResult == [ok |-> FALSE]

\* the Move object Chess.move returns for a legal move
EngineMove(f, from, to) ==
  [ok |-> TRUE, color |-> f.turn, from |-> from, to |-> to,
   piece |-> f.board[from].type, san |-> San(f, from, to),
   before |-> FenText(f), after |-> FenText(ApplyMove(f, from, to))]

\* ------------------------------------------------------------------ state
Clients == {"c1", "c2"}
NoSquare == <<0, 0>>

VARIABLES
  engineThrows,   \* Chess.move rejects an illegal move by throwing (else by returning null)
  rev,            \* per client: the revision of the board component its tab runs
  session,        \* per client: the signed-in user id, or NULL
  gameRow,        \* the games row
  movesTable,     \* the moves rows of the game, in insertion order
  feed,           \* per client: change notifications not yet delivered
  pc,             \* per client: "off", "local" (Home sandbox), fetch stage, or "ready"
  fen, moves, gameStatus, drawOfferedBy, playerColor,   \* GamePage state
  game, moveFrom, optionSquares,                        \* ChessGame state
  effectDue,      \* per client: the initialFen sync effect is scheduled
  reply,          \* per client: what the data layer answered to fetchGame's reads
  inflight,       \* per client: handleMove calls awaiting the data layer
  commits,        \* committed moves so far
  access          \* the last request the row level security policies decided

vars == <<engineThrows, rev, session, gameRow, movesTable, feed, pc, fen, moves,
          gameStatus, drawOfferedBy, playerColor, game, moveFrom, optionSquares,
          effectDue, reply, inflight, commits, access>>

config  == <<engineThrows, rev, session>>
page    == <<fen, moves, gameStatus, drawOfferedBy, playerColor>>
boardUI == <<game, moveFrom, optionSquares>>
db      == <<gameRow, movesTable>>

IsLocal(c) == pc[c] = "local"
Mounted(c) == pc[c] \in {"local", "ready"}
Subscribed(c) == pc[c] \in {"fetchGame", "gameReply", "fetchMoves", "movesReply", "ready"}

\* props GamePage passes to ChessGame; Home passes none
PropOrientation(c) ==
  IF IsLocal(c) THEN "white"
  ELSE IF playerColor[c] = NULL THEN "white" ELSE playerColor[c]
PropPlayerColor(c) == "undefined"

\* ------------------------------------------------------------- ChessGame
\* makeAMove has a turn guard (none in part_002), applied to online games
Gated(c) == ~IsLocal(c) /\ rev[c] # "part_002"

\* the color makeAMove and onSquareClick compare with
GateColor(c) ==
  IF rev[c] \in {"ChessBoard", "part_002"}
  THEN (IF PropOrientation(c) = "white" THEN "w" ELSE "b")
  ELSE (IF PropPlayerColor(c) = "white" THEN "w" ELSE "b")

\* the king variant of makeAMove: FEN edited by hand
OverrideFen(g, from, to) ==
  LET p == g.board[from]
  IN [board |-> [[g.board EXCEPT ![from] = NoPiece] EXCEPT ![to] = p],
      turn  |-> Other(g.turn),
      half  |-> 0,
      full  |-> IF p.color = "b" THEN g.full + 1 ELSE g.full]

OverrideApplies(g, from, to) ==
  /\ g.board[from].type = "k"
  /\ Abs(from[1] - to[1]) <= 1 /\ Abs(from[2] - to[2]) <= 1

\* Chess.load validates the position: both kings must be present
LoadAccepts(f) == HasKing(f.board, "w") /\ HasKing(f.board, "b")

OverrideMove(g, from, to) ==
  [ok |-> TRUE, color |-> g.board[from].color, from |-> from, to |-> to,
   piece |-> g.board[from].type,
   san |-> [piece |-> "k", x |-> FALSE, to |-> to, suf |-> ""],
   before |-> SqText(from), after |-> FenText(OverrideFen(g, from, to))]

\* a faulty makeAMove that lets the king variant move any piece one square
MakeAMoveAnyPiece(c, from, to) ==
  LET g == game[c]
      rejected == [result |-> NoResult, game |-> g]
  IN IF Gated(c) /\ g.turn # GateColor(c) THEN rejected
     ELSE IF Legal(g, from, to)
       THEN [result |-> EngineMove(g, from, to), game |-> ApplyMove(g, from, to)]
     ELSE IF g.board[from] # NoPiece /\ Adjacent(from, to) /\ LoadAccepts(OverrideFen(g, from, to))
       THEN [result |-> OverrideMove(g, from, to), game |-> OverrideFen(g, from, to)]
     ELSE rejected

\* a faulty makeAMove that gives a legal move the king variant's bookkeeping
\* (halfmove clock reset) instead of keeping the engine's own position
MakeAMoveEdited(c, from, to) ==
  LET g == game[c]
      rejected == [result |-> NoResult, game |-> g]
  IN IF Gated(c) /\ g.turn # GateColor(c) THEN rejected
     ELSE IF Legal(g, from, to)
       THEN [result |-> [EngineMove(g, from, to) EXCEPT !.after = FenText(OverrideFen(g, from, to))],
             game |-> OverrideFen(g, from, to)]
     ELSE rejected

\* makeAMove: the descriptor it returns (NoResult for null) and the board after
MakeAMove(c, from, to) ==
  LET g == game[c]
      rejected == [result |-> NoResult, game |-> g]
  IN IF Gated(c) /\ g.turn # GateColor(c) THEN rejected
     ELSE IF Legal(g, from, to)
       THEN [result |-> EngineMove(g, from, to), game |-> ApplyMove(g, from, to)]
     ELSE IF rev[c] # "part_001" \/ engineThrows THEN rejected
     ELSE IF OverrideApplies(g, from, to) /\ LoadAccepts(OverrideFen(g, from, to))
       THEN [result |-> OverrideMove(g, from, to), game |-> OverrideFen(g, from, to)]
     ELSE rejected

\* canSelect of onSquareClick
CanSelect(c, sq) ==
  LET p == game[c].board[sq]
  IN /\ p # NoPiece
     /\ IF rev[c] = "part_002" THEN p.color = GateColor(c)
        ELSE IF IsLocal(c) THEN p.color = game[c].turn
        ELSE IF rev[c] = "ChessBoard" THEN p.color = GateColor(c)
        ELSE PropPlayerColor(c) # "undefined" /\ p.color = GateColor(c)

DestStyle(g, sq, t) ==
  IF g.board[t] # NoPiece /\ g.board[sq] # NoPiece /\ g.board[t].color # g.board[sq].color
  THEN "capture" ELSE "dot"

\* getMoveOptions: the squareStyles it sets, as (square, style) pairs
GetMoveOptions(c, sq) ==
  LET g == game[c]
      std == {<<t, DestStyle(g, sq, t)>> : t \in Moves(g, sq)}
      kingSq == IF g.board[sq].type = "k"
                THEN {t \in Squares : Adjacent(sq, t) /\ g.board[t].color # g.board[sq].color
                                      /\ t \notin Moves(g, sq)}
                ELSE {}
      king == {<<t, IF g.board[t] # NoPiece THEN "capture" ELSE "dot">> : t \in kingSq}
  IN IF rev[c] # "part_001"
     THEN (IF Moves(g, sq) = {} THEN {} ELSE std \cup {<<sq, "source">>})
     ELSE {e \in std \cup king : e[1] # sq} \cup {<<sq, "source">>}

\* handleMove up to its first await: the moves row it asks the data layer to insert
MoveRow(c, m) ==
  [move_number |-> Len(moves[c]) + 1, notation |-> m.san,
   from_square |-> m.from, to_square |-> m.to,
   fen_before |-> m.before, fen_after |-> m.after]

\* what a committed move changes: the board, the sync effect (the later revision
\* lists game among the effect's dependencies), and the persistence call
Commit(c, r) ==
  /\ commits < MaxMoves
  /\ game' = [game EXCEPT ![c] = r.game]
  /\ commits' = commits + 1
  /\ IF IsLocal(c)
     THEN UNCHANGED <<inflight, effectDue>>
     ELSE /\ inflight' = [inflight EXCEPT ![c] = Append(@, [stage |-> "insert", row |-> MoveRow(c, r.result)])]
          /\ effectDue' = [effectDue EXCEPT ![c] = (rev[c] # "ChessBoard" /\ r.game # fen[c])]

Ready(c) == Mounted(c) /\ ~effectDue[c]

\* onDrop: a drag from one square to another
OnDrop(c, from, to) ==
  /\ Ready(c)
  /\ commits < MaxMoves
  /\ game[c].board[from] # NoPiece
  /\ LET r == MakeAMove(c, from, to)
     IN /\ r.result.ok
        /\ Commit(c, r)
  /\ UNCHANGED <<config, access, reply, db, feed, pc, page, moveFrom, optionSquares>>

\* onSquareClick: first click selects, second click moves, reselects or clears
OnSquareClick(c, sq) ==
  /\ Ready(c)
  /\ IF moveFrom[c] = NoSquare
     THEN /\ CanSelect(c, sq)
          /\ moveFrom' = [moveFrom EXCEPT ![c] = sq]
          /\ optionSquares' = [optionSquares EXCEPT ![c] = GetMoveOptions(c, sq)]
          /\ UNCHANGED <<game, inflight, effectDue, commits>>
     ELSE LET r == MakeAMove(c, moveFrom[c], sq)
          IN IF r.result.ok
             THEN /\ Commit(c, r)
                  /\ moveFrom' = [moveFrom EXCEPT ![c] = NoSquare]
                  /\ optionSquares' = [optionSquares EXCEPT ![c] = {}]
             ELSE /\ IF CanSelect(c, sq)
                     THEN /\ moveFrom' = [moveFrom EXCEPT ![c] = sq]
                          /\ optionSquares' = [optionSquares EXCEPT ![c] = GetMoveOptions(c, sq)]
                     ELSE /\ moveFrom' = [moveFrom EXCEPT ![c] = NoSquare]
                          /\ optionSquares' = [optionSquares EXCEPT ![c] = {}]
                  /\ UNCHANGED <<game, inflight, effectDue, commits>>
  /\ UNCHANGED <<config, access, reply, db, feed, pc, page>>

\* the effect that keeps the board in sync with the initialFen prop
SyncEffect(c) ==
  /\ effectDue[c]
  /\ effectDue' = [effectDue EXCEPT ![c] = FALSE]
  /\ game' = [game EXCEPT ![c] = IF fen[c] # game[c] THEN fen[c] ELSE game[c]]
  /\ UNCHANGED <<config, access, reply, db, feed, pc, page, moveFrom, optionSquares, inflight, commits>>

\* -------------------------------------------------------------- data layer
Listeners == {d \in Clients : Subscribed(d)}

\* room in every listener's feed for n more notifications
FeedRoom(n) == \A d \in Listeners : Len(feed[d]) + n <= MaxFeed

Notify(n) == [d \in Clients |-> IF Subscribed(d) THEN Append(feed[d], n) ELSE feed[d]]

InsertEvent(row) == [type |-> "INSERT", new |-> row]
UpdateEvent(row) == [type |-> "UPDATE", new |-> row]

\* an update of the games row: the write and its change notification
UpdateGame(row) ==
  /\ FeedRoom(1)
  /\ gameRow' = row
  /\ feed' = Notify(UpdateEvent(row))

\* handleMove, first await: the insert into moves succeeds
InsertMove(c) ==
  /\ inflight[c] # <<>> /\ Head(inflight[c]).stage = "insert"
  /\ FeedRoom(1)
  /\ movesTable' = Append(movesTable, Head(inflight[c]).row)
  /\ feed' = Notify(InsertEvent(Head(inflight[c]).row))
  /\ inflight' = [inflight EXCEPT ![c] = <<[@[1] EXCEPT !.stage = "update"]>> \o Tail(@)]
  /\ UNCHANGED <<config, access, reply, gameRow, pc, page, boardUI, effectDue, commits>>

\* handleMove, first await: the insert fails; the error is logged and nothing else is done
InsertMoveFails(c) ==
  /\ inflight[c] # <<>> /\ Head(inflight[c]).stage = "insert"
  /\ inflight' = [inflight EXCEPT ![c] = Tail(@)]
  /\ UNCHANGED <<config, access, reply, db, feed, pc, page, boardUI, effectDue, commits>>

\* a faulty second await that also withdraws an outstanding draw offer
UpdateFenClearingOffer(c) ==
  /\ inflight[c] # <<>> /\ Head(inflight[c]).stage = "update"
  /\ UpdateGame([gameRow EXCEPT !.fen = Head(inflight[c]).row.fen_after, !.draw_offered_by = NULL])
  /\ inflight' = [inflight EXCEPT ![c] = Tail(@)]
  /\ UNCHANGED <<config, access, reply, movesTable, pc, page, boardUI, effectDue, commits>>

\* handleMove, second await: games.fen is set to the move's after-position
UpdateFen(c) ==
  /\ inflight[c] # <<>> /\ Head(inflight[c]).stage = "update"
  /\ UpdateGame([gameRow EXCEPT !.fen = Head(inflight[c]).row.fen_after])
  /\ inflight' = [inflight EXCEPT ![c] = Tail(@)]
  /\ UNCHANGED <<config, access, reply, movesTable, pc, page, boardUI, effectDue, commits>>

\* row level security: with it enabled on a table, a request passes only if a
\* policy for its command does; uid is auth.uid() (NULL for an anonymous caller)
\* and id the id of the profiles row concerned
Tables  == {"profiles", "games", "moves"}
Commands == {"SELECT", "INSERT", "UPDATE", "DELETE"}
Callers == {NULL, "u1", "u2"}

Permits(table, cmd, uid, id) ==
  CASE table = "profiles" /\ cmd = "SELECT" -> TRUE
    [] table = "profiles" /\ cmd = "UPDATE" -> uid # NULL /\ uid = id
    [] table = "games" /\ cmd \in {"SELECT", "INSERT", "UPDATE"} -> TRUE
    [] table = "moves" /\ cmd \in {"SELECT", "INSERT"} -> TRUE
    [] OTHER -> FALSE

NoAccess == [table |-> NULL, cmd |-> NULL, uid |-> NULL, id |-> NULL, allowed |-> FALSE]

\* any caller sends any command to the data layer, which applies the policies
Request(table, cmd, uid, id) ==
  /\ access' = [table |-> table, cmd |-> cmd, uid |-> uid, id |-> id,
                allowed |-> Permits(table, cmd, uid, id)]
  /\ UNCHANGED <<config, reply, db, feed, pc, page, boardUI, effectDue, inflight, commits>>

\* --------------------------------------------------------------- GamePage
\* the notations of the moves rows ordered by move_number (ties in insertion order)
RECURSIVE SortedNotations(_, _)
SortedNotations(rows, n) ==
  IF \A i \in 1..Len(rows) : rows[i].move_number < n THEN <<>>
  ELSE LET at == SelectSeq(rows, LAMBDA r : r.move_number = n)
       IN [i \in 1..Len(at) |-> at[i].notation] \o SortedNotations(rows, n + 1)

NoReply == [game |-> [status |-> NULL], moves |-> <<>>]

\* fetchGame, first await: the data layer reads the games row
ServeGame(c) ==
  /\ pc[c] = "fetchGame"
  /\ reply' = [reply EXCEPT ![c].game = gameRow]
  /\ pc' = [pc EXCEPT ![c] = "gameReply"]
  /\ UNCHANGED <<config, access, db, feed, page, boardUI, effectDue, inflight, commits>>

\* fetchGame resumes with the row: position, status and draw offer are set
FetchGame(c) ==
  /\ pc[c] = "gameReply"
  /\ fen' = [fen EXCEPT ![c] = reply[c].game.fen.fen]
  /\ gameStatus' = [gameStatus EXCEPT ![c] = reply[c].game.status]
  /\ drawOfferedBy' = [drawOfferedBy EXCEPT ![c] = reply[c].game.draw_offered_by]
  /\ pc' = [pc EXCEPT ![c] = "fetchMoves"]
  /\ UNCHANGED <<config, access, db, feed, reply, moves, playerColor, boardUI, effectDue, inflight, commits>>

\* fetchGame, second await: the data layer reads the move history
ServeMoves(c) ==
  /\ pc[c] = "fetchMoves"
  /\ reply' = [reply EXCEPT ![c].moves = SortedNotations(movesTable, 0)]
  /\ pc' = [pc EXCEPT ![c] = "movesReply"]
  /\ UNCHANGED <<config, access, db, feed, page, boardUI, effectDue, inflight, commits>>

\* the role fetchGame resolves from the session and the games row it read
ResolveColor(user, row) ==
  IF user = NULL THEN NULL
  ELSE IF user = row.white_player_id THEN "white"
  ELSE IF user = row.black_player_id THEN "black"
  ELSE NULL

\* fetchGame resumes with the history, resolves the role from the session and
\* ends loading: ChessGame mounts on the page's current position
FetchMoves(c) ==
  /\ pc[c] = "movesReply"
  /\ moves' = [moves EXCEPT ![c] = reply[c].moves]
  /\ playerColor' = [playerColor EXCEPT ![c] = ResolveColor(session[c], reply[c].game)]
  /\ pc' = [pc EXCEPT ![c] = "ready"]
  /\ game' = [game EXCEPT ![c] = fen[c]]
  /\ reply' = [reply EXCEPT ![c] = NoReply]
  /\ UNCHANGED <<config, access, db, feed, fen, gameStatus, drawOfferedBy, moveFrom,
                 optionSquares, effectDue, inflight, commits>>

\* a faulty updater that appends every notification's notation
AppendAlways(prev, notation) == Append(prev, notation)

\* the setMoves updater of the moves INSERT callback
AppendUnlessLast(prev, notation) ==
  IF prev # <<>> /\ prev[Len(prev)] = notation THEN prev ELSE Append(prev, notation)

\* a faulty subscription whose callbacks leave the position and the status alone
DeliverListOnly(c) ==
  /\ feed[c] # <<>>
  /\ ~effectDue[c]
  /\ LET n == Head(feed[c])
     IN IF n.type = "INSERT"
        THEN /\ moves' = [moves EXCEPT ![c] = AppendUnlessLast(@, n.new.notation)]
             /\ UNCHANGED <<fen, effectDue, gameStatus, drawOfferedBy>>
        ELSE /\ drawOfferedBy' = [drawOfferedBy EXCEPT ![c] = n.new.draw_offered_by]
             /\ UNCHANGED <<fen, moves, effectDue, gameStatus>>
  /\ feed' = [feed EXCEPT ![c] = Tail(@)]
  /\ UNCHANGED <<config, access, reply, db, pc, playerColor, boardUI, inflight, commits>>

\* a change notification is delivered to the page's subscription
Deliver(c) ==
  /\ feed[c] # <<>>
  /\ ~effectDue[c]
  /\ LET n == Head(feed[c])
     IN IF n.type = "INSERT"
        THEN /\ fen' = [fen EXCEPT ![c] = n.new.fen_after.fen]
             /\ moves' = [moves EXCEPT ![c] = AppendUnlessLast(@, n.new.notation)]
             /\ effectDue' = [effectDue EXCEPT ![c] =
                    pc[c] = "ready" /\ n.new.fen_after.fen # fen[c] /\ n.new.fen_after.fen # game[c]]
             /\ UNCHANGED <<gameStatus, drawOfferedBy>>
        ELSE /\ gameStatus' = [gameStatus EXCEPT ![c] = n.new.status]
             /\ drawOfferedBy' = [drawOfferedBy EXCEPT ![c] = n.new.draw_offered_by]
             /\ UNCHANGED <<fen, moves, effectDue>>
  /\ feed' = [feed EXCEPT ![c] = Tail(@)]
  /\ UNCHANGED <<config, access, reply, db, pc, playerColor, boardUI, inflight, commits>>

\* the resign and draw controls are rendered for an assigned viewer of a playing game
Controls(c) == pc[c] = "ready" /\ ~effectDue[c] /\ gameStatus[c] = "playing" /\ playerColor[c] # NULL

\* a faulty handleResign that records the opponent as the winner
ResignNamingWinner(c) ==
  /\ Controls(c)
  /\ UpdateGame([gameRow EXCEPT !.status = "finished",
                                !.winner_id = IF playerColor[c] = "white"
                                              THEN gameRow.black_player_id
                                              ELSE gameRow.white_player_id])
  /\ UNCHANGED <<config, access, reply, movesTable, pc, page, boardUI, effectDue, inflight, commits>>

\* handleResign, the confirm prompt accepted
Resign(c) ==
  /\ Controls(c)
  /\ UpdateGame([gameRow EXCEPT !.status = "finished", !.winner_id = NULL])
  /\ UNCHANGED <<config, access, reply, movesTable, pc, page, boardUI, effectDue, inflight, commits>>

\* handleOfferDraw: the button is rendered while the page holds no draw offer
OfferDraw(c) ==
  /\ Controls(c) /\ drawOfferedBy[c] = NULL
  /\ UpdateGame([gameRow EXCEPT !.draw_offered_by = playerColor[c]])
  /\ UNCHANGED <<config, access, reply, movesTable, pc, page, boardUI, effectDue, inflight, commits>>

\* handleAcceptDraw: the button is rendered while the page holds the other color's offer
AcceptDraw(c) ==
  /\ Controls(c) /\ drawOfferedBy[c] # NULL /\ drawOfferedBy[c] # playerColor[c]
  /\ UpdateGame([gameRow EXCEPT !.status = "draw", !.draw_offered_by = NULL])
  /\ UNCHANGED <<config, access, reply, movesTable, pc, page, boardUI, effectDue, inflight, commits>>

\* handleDeclineDraw
DeclineDraw(c) ==
  /\ Controls(c) /\ drawOfferedBy[c] # NULL /\ drawOfferedBy[c] # playerColor[c]
  /\ UpdateGame([gameRow EXCEPT !.draw_offered_by = NULL])
  /\ UNCHANGED <<config, access, reply, movesTable, pc, page, boardUI, effectDue, inflight, commits>>

\* ------------------------------------------------------------ specification
\* createGame inserts status and fen only; the participant columns are NULL
\* unless written from outside the client
NewGameRow(w, b) ==
  [white_player_id |-> w, black_player_id |-> b, fen |-> FenText(StartFen),
   status |-> "playing", winner_id |-> NULL, draw_offered_by |-> NULL]

Revisions == {"ChessBoard", "part_001", "part_002"}

\* two tabs of an online game run the component of ChessBoard.tsx or of
\* part_001: one of them in both tabs, or part_001 in the second tab only
Deployments ==
  {r \in [Clients -> {"ChessBoard", "part_001"}] : r["c1"] = "part_001" => r["c2"] = "part_001"}

\* the engine's way of rejecting matters to the king variant of part_001 only
InitTabs ==
  /\ engineThrows \in BOOLEAN
  /\ rev \in [Clients -> Revisions]
  /\ (\A c \in Clients : rev[c] # "part_001") => engineThrows
  /\ feed = [c \in Clients |-> <<>>]
  /\ fen = [c \in Clients |-> StartFen]
  /\ moves = [c \in Clients |-> <<>>]
  /\ gameStatus = [c \in Clients |-> "loading"]
  /\ drawOfferedBy = [c \in Clients |-> NULL]
  /\ playerColor = [c \in Clients |-> NULL]
  /\ game = [c \in Clients |-> StartFen]
  /\ moveFrom = [c \in Clients |-> NoSquare]
  /\ optionSquares = [c \in Clients |-> {}]
  /\ effectDue = [c \in Clients |-> FALSE]
  /\ reply = [c \in Clients |-> NoReply]
  /\ inflight = [c \in Clients |-> <<>>]
  /\ commits = 0
  /\ access = NoAccess

\* a game without moves
InitCommon == InitTabs /\ movesTable = <<>>

\* two tabs open the game page of one game
InitOnline ==
  /\ InitCommon
  /\ rev \in Deployments
  /\ session = [c \in Clients |-> IF c = "c1" THEN "u1" ELSE "u2"]
  /\ gameRow \in {NewGameRow(NULL, NULL), NewGameRow("u1", "u2")}
  /\ pc = [c \in Clients |-> "fetchGame"]

\* one tab shows the Home page's local sandbox
InitLocal ==
  /\ InitCommon
  /\ rev["c1"] = rev["c2"]
  /\ session = [c \in Clients |-> NULL]
  /\ gameRow = NewGameRow(NULL, NULL)
  /\ pc = [c \in Clients |-> IF c = "c1" THEN "local" ELSE "off"]

Init == InitOnline \/ InitLocal

\* the moves row of a first move of white, as handleMove builds it from the
\* descriptor the engine returned
FirstRow(from, to) ==
  LET m == EngineMove(StartFen, from, to)
  IN [move_number |-> 1, notation |-> m.san, from_square |-> m.from, to_square |-> m.to,
      fen_before |-> m.before, fen_after |-> m.after]

\* the two participants open the page of a game whose first move was played
\* and saved in an earlier visit: one moves row, games.fen at its after-position
InitResumed ==
  /\ InitTabs
  /\ rev \in Deployments
  /\ session = [c \in Clients |-> IF c = "c1" THEN "u1" ELSE "u2"]
  /\ \E from \in Squares, to \in Squares :
       /\ Legal(StartFen, from, to)
       /\ movesTable = <<FirstRow(from, to)>>
       /\ gameRow = [NewGameRow("u1", "u2") EXCEPT !.fen = FirstRow(from, to).fen_after]
  /\ pc = [c \in Clients |-> "fetchGame"]

\* fetchGame's reads and resumptions
Load ==
  \/ \E c \in Clients : ServeGame(c)
  \/ \E c \in Clients : FetchGame(c)
  \/ \E c \in Clients : ServeMoves(c)
  \/ \E c \in Clients : FetchMoves(c)

\* the subscription callbacks and the prop-sync effect
Sync ==
  \/ \E c \in Clients : Deliver(c)
  \/ \E c \in Clients : SyncEffect(c)

\* handleMove's awaits
Persist ==
  \/ \E c \in Clients : InsertMove(c)
  \/ \E c \in Clients : InsertMoveFails(c)
  \/ \E c \in Clients : UpdateFen(c)

Drag  == \E c \in Clients, from \in Squares, to \in Squares : OnDrop(c, from, to)
Click == \E c \in Clients, sq \in Squares : OnSquareClick(c, sq)

\* the resign and draw controls
Life ==
  \/ \E c \in Clients : Resign(c)
  \/ \E c \in Clients : OfferDraw(c)
  \/ \E c \in Clients : AcceptDraw(c)
  \/ \E c \in Clients : DeclineDraw(c)

\* requests from any holder of the project's key
Access ==
  \E table \in Tables, cmd \in Commands, uid \in Callers, id \in Callers \ {NULL} :
    Request(table, cmd, uid, id)

Next == Load \/ Sync \/ Persist \/ Drag \/ Click \/ Life \/ Access

\* the whole system
Spec == Init /\ [][Next]_vars

\* The selection state of the board (moveFrom, optionSquares), the resign and
\* draw controls (status, draw offer) and the move pipeline do not read one
\* another's state, so the claims about one of them are checked with the
\* gestures of the others left out:
\*   SpecDrag  moves by drag-and-drop, persistence, loading, notifications
\*   SpecPlay  SpecDrag with the click selector
\*   SpecLife  SpecDrag with the resign and draw controls
SpecDrag == Init /\ [][Load \/ Sync \/ Persist \/ Drag]_vars
SpecPlay == Init /\ [][Load \/ Sync \/ Persist \/ Drag \/ Click]_vars
SpecLife == Init /\ [][Load \/ Sync \/ Persist \/ Drag \/ Life]_vars

\* the second move of a game resumed after its first
SpecResumed == InitResumed /\ [][Load \/ Sync \/ Persist \/ Drag]_vars

\* the resign and draw controls of a game in which no move is played
SpecControls == Init /\ [][Load \/ (\E c \in Clients : Deliver(c)) \/ Life]_vars

\* the data layer's access decisions alone
SpecPolicy == Init /\ [][Access]_vars

\* ------------------------------------------------------------------ claims
\* the color whose turn it is by the length of the page's move list
ExpectedByList(c) == IF Len(moves[c]) % 2 = 0 THEN "white" ELSE "black"

\* some drag or second click of c commits a move
Accepts(c) == \E f \in Squares, t \in Squares : MakeAMove(c, f, t).result.ok

\* the turn guard of makeAMove lets c through
GatePasses(c) == ~Gated(c) \/ game[c].turn = GateColor(c)

\* from holds the king of the side to move and to is a neighbour it could step
\* or capture onto
KingStep(g, from, to) ==
  /\ g.board[from] = [type |-> "k", color |-> g.turn]
  /\ Adjacent(from, to)
  /\ g.board[to].color # g.turn

IsFenText(v) == DOMAIN v = {"fen"}

\* C1 (as the spec states it): an assigned viewer of an online game whose color
\* does not match the parity of the length of its local move list (even: white,
\* odd: black) has every (from, to) rejected by makeAMove.
C1_GateFollowsMoveListParity ==
  \A c \in Clients :
    (pc[c] = "ready" /\ ~effectDue[c] /\ playerColor[c] # NULL
       /\ ExpectedByList(c) # playerColor[c])
    => ~Accepts(c)

\* C2 (as the spec states it): a spectator (online viewer with playerColor null)
\* can commit no move, by drag or by click, whichever side is to move.
C2_SpectatorNeverCommits ==
  \A c \in Clients :
    (pc[c] = "ready" /\ ~effectDue[c] /\ playerColor[c] = NULL) => ~Accepts(c)

\* C3 (as the spec states it): in the component that has the king variant, a king
\* of the side to move stepping onto a neighbouring square that is empty or holds
\* an enemy piece commits even when the engine rejects the step; afterwards the
\* king stands on the target, the side to move is flipped and the halfmove
\* clock is 0.
C3_KingOverrideCommits ==
  \A c \in Clients :
    (Ready(c) /\ rev[c] = "part_001" /\ GatePasses(c)) =>
      \A f \in Squares, t \in Squares :
        (KingStep(game[c], f, t) /\ ~Legal(game[c], f, t)) =>
          LET r == MakeAMove(c, f, t)
          IN /\ r.result.ok
             /\ r.game.board[t] = [type |-> "k", color |-> game[c].turn]
             /\ r.game.turn = Other(game[c].turn)
             /\ r.game.half = 0

\* C4: every step that commits a move the engine accepts as legal leaves the
\* mover's board equal to the engine's own post-move position, and the
\* descriptor handed to onMove carries that same position as `after`.
C4_LegalCommitIsEnginePosition ==
  [][\A c \in Clients, f \in Squares, t \in Squares :
       (/\ commits' = commits + 1
        /\ game'[c] # game[c]
        /\ Legal(game[c], f, t)
        /\ game'[c].board = MovePiece(game[c].board, f, t))
       => /\ game'[c] = ApplyMove(game[c], f, t)
          /\ ~IsLocal(c) =>
               inflight'[c][Len(inflight'[c])].row.fen_after = FenText(ApplyMove(game[c], f, t))]_vars

\* C4 witness: a client has just committed a legal move; its board is the
\* engine's position after that move
C4_Witness ==
  \E c \in Clients :
    /\ inflight[c] # <<>>
    /\ LET row == inflight[c][1].row
       IN /\ IsFenText(row.fen_before)
          /\ Legal(row.fen_before.fen, row.from_square, row.to_square)
          /\ game[c] = ApplyMove(row.fen_before.fen, row.from_square, row.to_square)
          /\ row.fen_after = FenText(game[c])

\* C5: a delivered move-insert notification whose notation equals the last entry
\* of the local move list leaves the list unchanged; any other appends exactly
\* that notation at the end.
C5_InsertNotificationDeduplicated ==
  [][\A c \in Clients :
       (feed[c] # <<>> /\ feed'[c] = Tail(feed[c]) /\ Head(feed[c]).type = "INSERT")
       => LET n == Head(feed[c]).new.notation
          IN moves'[c] = IF moves[c] # <<>> /\ moves[c][Len(moves[c])] = n
                         THEN moves[c]
                         ELSE Append(moves[c], n)]_vars

\* C5 witness: the page already lists a move (read by fetchGame) whose insert
\* notification is the next one to be delivered to it
C5_Witness ==
  \E c \in Clients :
    /\ pc[c] = "ready" /\ ~effectDue[c]
    /\ feed[c] # <<>> /\ Head(feed[c]).type = "INSERT"
    /\ moves[c] # <<>>
    /\ moves[c][Len(moves[c])] = Head(feed[c]).new.notation

\* C6 (as the spec states it): every move an online client can commit hands
\* onMove a descriptor whose `before` is the position string before the move and
\* whose `after` is the position string after it, and the moves row built from
\* it stores them as fen_before and fen_after.
C6_DescriptorCarriesPositions ==
  \A c \in Clients :
    (Ready(c) /\ ~IsLocal(c)) =>
      \A f \in Squares, t \in Squares :
        LET r == MakeAMove(c, f, t)
        IN r.result.ok =>
             /\ r.result.before = FenText(game[c])
             /\ r.result.after = FenText(r.game)
             /\ MoveRow(c, r.result).fen_before = FenText(game[c])
             /\ MoveRow(c, r.result).fen_after = FenText(r.game)

\* C7 (as the spec states it): the stored status never changes once it is
\* finished or draw, and from playing it goes to finished or draw only.
C7_TerminalStatusIsFinal ==
  [][/\ gameRow.status \in {"finished", "draw"} => gameRow'.status = gameRow.status
     /\ gameRow.status = "playing" => gameRow'.status \in {"playing", "finished", "draw"}]_vars

\* C8 (as the spec states it): the stored status becomes draw only while an
\* offer is stored, and that step clears the offer; a new offer is written only
\* while no offer is stored.
C8_DrawOfferFlag ==
  [][/\ (gameRow.status # "draw" /\ gameRow'.status = "draw") =>
          (gameRow.draw_offered_by # NULL /\ gameRow'.draw_offered_by = NULL)
     /\ (gameRow'.draw_offered_by # NULL /\ gameRow'.draw_offered_by # gameRow.draw_offered_by) =>
          gameRow.draw_offered_by = NULL]_vars

\* C9 (as the spec states it): a signed-in viewer who has entered the game is
\* white if it is the stored white participant, else black if it is the stored
\* black participant, else has been written into an empty slot if there is one,
\* and is unassigned only when both slots belong to others.
C9_RoleResolution ==
  \A c \in Clients :
    (pc[c] = "ready" /\ session[c] # NULL) =>
      IF session[c] = gameRow.white_player_id THEN playerColor[c] = "white"
      ELSE IF session[c] = gameRow.black_player_id THEN playerColor[c] = "black"
      ELSE /\ gameRow.white_player_id # NULL
           /\ gameRow.black_player_id # NULL
           /\ playerColor[c] = NULL

\* C10 (as the spec states it): the step that stores finished (resign) or draw
\* (accept) leaves no row of the game in the moves table.
C10_EndingDeletesMoveLog ==
  [][(gameRow.status = "playing" /\ gameRow'.status \in {"finished", "draw"})
       => movesTable' = <<>>]_vars

\* C11 (as the spec states it): in the local sandbox no attempt is rejected for
\* the viewer's color: every piece of the side to move can be selected by click,
\* every move the rules allow is committed, for white and for black alike, and
\* no moves or games row is written.
C11_LocalSandboxUnrestricted ==
  \A c \in Clients :
    (IsLocal(c) /\ Ready(c)) =>
      /\ \A sq \in Squares : game[c].board[sq].color = game[c].turn => CanSelect(c, sq)
      /\ \A f \in Squares, t \in Squares : Legal(game[c], f, t) => MakeAMove(c, f, t).result.ok
      /\ movesTable = <<>> /\ gameRow = NewGameRow(NULL, NULL) /\ inflight[c] = <<>>

\* C14 (as the spec states it): every caller may read, insert, update and delete
\* rows of games and of moves; a profiles row may be read by every caller and
\* written only by the caller whose identity is the row's id.
C14_AccessPolicy ==
  access # NoAccess =>
    /\ access.table \in {"games", "moves"} => access.allowed
    /\ (access.table = "profiles" /\ access.cmd = "SELECT") => access.allowed
    /\ (access.table = "profiles" /\ access.cmd # "SELECT") =>
         (access.allowed <=> (access.uid # NULL /\ access.uid = access.id))

Occupied(g) == {s \in Squares : g.board[s] # NoPiece}

\* the rows handed to the data layer by c, stored or still in flight
RowsOf(c) == {inflight[c][i].row : i \in 1..Len(inflight[c])}
StoredRows == {movesTable[i] : i \in 1..Len(movesTable)}

C17_InsertFailureKeepsLocalMove ==
  [][\A c \in Clients :
       (inflight[c] # <<>> /\ inflight'[c] = Tail(inflight[c])) =>
          LET call == Head(inflight[c])
          IN IF call.stage = "insert"
             THEN /\ gameRow' = gameRow
                  /\ movesTable' = movesTable
                  /\ game'[c] = call.row.fen_after.fen
             ELSE gameRow'.fen = call.row.fen_after]_vars

\* no handleMove call is awaiting the data layer
Settled == \A c \in Clients : inflight[c] = <<>>

\* C18 (as the spec states it): the stored moves carry the numbers 1, 2, ..., n
\* in insertion order, and, a row being stored as handleMove built it, the row
\* built for any move an assigned participant's board accepts once the earlier
\* calls have settled carries the number after those of the stored rows.
C18_MoveNumbersSequential ==
  /\ \A k \in 1..Len(movesTable) : movesTable[k].move_number = k
  /\ \A c \in Clients :
       (Ready(c) /\ ~IsLocal(c) /\ playerColor[c] # NULL /\ Settled) =>
          \A f \in Occupied(game[c]), t \in Squares :
             LET r == MakeAMove(c, f, t)
             IN r.result.ok => MoveRow(c, r.result).move_number = Len(movesTable) + 1

\* C19 (as the spec states it): of any two stored moves with consecutive
\* numbers N and N+1 the fen_after of the first is the fen_before of the second,
\* and the fen_before of a move numbered 1 is the initial position.
C19_PositionChain ==
  /\ \A i \in 1..Len(movesTable) :
       movesTable[i].move_number = 1 => movesTable[i].fen_before = FenText(StartFen)
  /\ \A i \in 1..Len(movesTable), j \in 1..Len(movesTable) :
       movesTable[j].move_number = movesTable[i].move_number + 1 =>
          movesTable[j].fen_before = movesTable[i].fen_after

\* C20 (as the spec states it): in every state games.fen is the fen_after of
\* the moves row inserted last, and the initial position while no row is stored.
C20_StoredFenIsLatestAfter ==
  gameRow.fen = IF movesTable = <<>> THEN FenText(StartFen)
                ELSE movesTable[Len(movesTable)].fen_after

MayMove(c, sq) ==
  LET p == game[c].board[sq]
  IN /\ p # NoPiece
     /\ IF IsLocal(c) THEN p.color = game[c].turn
        ELSE \/ playerColor[c] = "white" /\ p.color = "w"
             \/ playerColor[c] = "black" /\ p.color = "b"

\* C22 (as the spec states it): a click with no square selected selects the
\* clicked square only if it holds a piece the viewer may move; a click with a
\* square selected clears the selection when it commits a move, selects the
\* clicked square when the move is rejected and the square holds another piece
\* the viewer may move, and otherwise clears the selection and the highlights.
C22_ClickSelector ==
  [][\A c \in Clients, sq \in Squares :
       OnSquareClick(c, sq) =>
         IF moveFrom[c] = NoSquare
         THEN moveFrom'[c] # NoSquare => (moveFrom'[c] = sq /\ MayMove(c, sq))
         ELSE IF commits' # commits
         THEN moveFrom'[c] = NoSquare /\ optionSquares'[c] = {}
         ELSE IF MayMove(c, sq) /\ sq # moveFrom[c]
         THEN moveFrom'[c] = sq
         ELSE moveFrom'[c] = NoSquare /\ optionSquares'[c] = {}]_vars

\* the destinations the spec lists for the piece on sq: the engine's legal
\* destinations and, for a king, the neighbours that are empty or hold an
\* enemy piece
Destinations(g, sq) ==
  Moves(g, sq) \cup
  (IF g.board[sq].type = "k"
   THEN {t \in Squares : Adjacent(sq, t) /\ g.board[t].color # g.board[sq].color}
   ELSE {})

\* C23 (as the spec states it): the click that selects a piece on sq sets the
\* highlights to the destinations of the spec, each square once, and marks sq
\* as the source.
C23_DestinationHighlights ==
  [][\A c \in Clients, sq \in Squares :
       (OnSquareClick(c, sq) /\ moveFrom'[c] = sq) =>
          /\ {e[1] : e \in optionSquares'[c]} \ {sq} = Destinations(game[c], sq)
          /\ <<sq, "source">> \in optionSquares'[c]
          /\ \A e1 \in optionSquares'[c], e2 \in optionSquares'[c] : e1[1] = e2[1] => e1 = e2]_vars

\* the color of the pieces c moves: the side to move in the sandbox, the
\* viewer's assigned color online
MoverColor(c) ==
  IF IsLocal(c) THEN game[c].turn
  ELSE IF playerColor[c] = "white" THEN "w"
  ELSE IF playerColor[c] = "black" THEN "b" ELSE "none"

\* C24 (as the spec states it): whenever makeAMove commits a move the engine
\* rejects, the moved piece is the king of the mover's color, the target differs
\* from the source and the target is empty or holds an enemy piece.
C24_OverrideOnlyForOwnKingStep ==
  \A c \in Clients :
    Ready(c) =>
      \A f \in Occupied(game[c]), t \in Squares :
        (MakeAMove(c, f, t).result.ok /\ ~Legal(game[c], f, t)) =>
           /\ game[c].board[f] = [type |-> "k", color |-> MoverColor(c)]
           /\ f # t
           /\ game[c].board[t].color # game[c].board[f].color

\* C25 (as the spec states it): a client whose page holds the status finished
\* or draw commits no move: no step of it changes its board by a move or starts
\* a handleMove call, so none of its moves is inserted or written to games.fen.
C25_NoMoveAfterTerminalStatus ==
  [][\A c \in Clients :
       gameStatus[c] \in {"finished", "draw"} =>
          /\ commits' = commits \/ game'[c] = game[c]
          /\ Len(inflight'[c]) <= Len(inflight[c])]_vars

C27_ConvergedAfterLoad ==
  \A c \in Clients :
    (pc[c] = "ready" /\ feed[c] = <<>> /\ ~effectDue[c] /\ Settled) =>
       /\ fen[c] = gameRow.fen.fen
       /\ moves[c] = SortedNotations(movesTable, 0)

\* C28 (as the spec states it): while a handleMove call of a client is awaiting
\* the data layer, its board shows the position after the committed move and
\* its position prop is still the position before it, a step that leaves the
\* prop alone leaves the board alone: no reset by the sync effect and no second
\* commit.
C28_BoardKeepsCommittedMove ==
  [][\A c \in Clients :
       (/\ inflight[c] # <<>>
        /\ IsFenText(inflight[c][Len(inflight[c])].row.fen_before)
        /\ fen[c] = inflight[c][Len(inflight[c])].row.fen_before.fen
        /\ game[c] = inflight[c][Len(inflight[c])].row.fen_after.fen
        /\ fen'[c] = fen[c]) =>
          game'[c] = game[c]]_vars

\* C29 (as the spec states it): a client subscribed since before the first move
\* that has finished loading and has no notification waiting, in a state where
\* no handleMove call is awaiting the data layer, lists the notations of all
\* inserted moves, in insertion order.
C29_HistoryComplete ==
  \A c \in Clients :
    (pc[c] = "ready" /\ feed[c] = <<>> /\ Settled) =>
       moves[c] = [i \in 1..Len(movesTable) |-> movesTable[i].notation]

\* C30 (as the spec states it): in every state a selected source square holds,
\* on the current board, a piece that onSquareClick would let the viewer
\* select, and the highlights are empty while no square is selected.
C30_SelectionInvariant ==
  \A c \in Clients :
    Mounted(c) =>
      IF moveFrom[c] = NoSquare THEN optionSquares[c] = {}
      ELSE CanSelect(c, moveFrom[c])
====
